---------------------------- MODULE Spec2Model ----------------------------
(***************************************************************************)
(* Model of Finder (src/combination_ranker.py; src/combination_finder.py   *)
(* holds the same class): estimate_iteration_count and get_best, the       *)
(* backtracking traversal add_combinations over (possibly shared) pools    *)
(* and the top-K selection with heapq.nlargest.                            *)
(*                                                                         *)
(* A ParameterValueSet is an object: it is named by its identity (a pool   *)
(* id) and its `available` dict lives in `heap` at the address equal to    *)
(* that id.  The dicts made by deepcopy live at fresh addresses.  A dict   *)
(* is the sequence of its <<value, count>> items in insertion order.       *)
(***************************************************************************)
EXTENDS Integers, Sequences, FiniteSets, TLC

\* ------------------------------------------------------------- bounds
MaxSlots == 2
MaxCount == 2
MaxK == 3
\* Inputs of Finder, drawn from small sets: the candidate values and the
\* counts (negative and zero included) of a pool's `available` dict, the
\* pool objects, the callable passed as Finder.score (ScoreFns indexes
\* the sample callables of `score` below), and get_best's argument.
Values == {1, 2}
Counts == (-1) .. MaxCount
PoolIds == {1, 2}
ScoreFns == {1, 2}
Ks == (-2) .. MaxK

None == 0

VARIABLES
  parameters_to_set,          \* Finder.parameters_to_set: pool id per slot
  heap,                       \* address -> dict (caller's pools and copies)
  score_fn,                   \* which scoring function Finder.score is
  estimate,                   \* value returned by estimate_iteration_count
  pc,                         \* position of the caller / of get_best
  copied_parameters_to_set,   \* per slot, address of its working dict
  stack,                      \* activation records of add_combinations
  previous_parameter_values,  \* the shared list of assigned values
  combination_results,        \* list of CombinationResult
  exc,                        \* exception in flight / raised
  count,                      \* get_best's argument
  results                     \* CombinationResults.results returned

vars == <<parameters_to_set, heap, score_fn, estimate, pc,
          copied_parameters_to_set, stack, previous_parameter_values,
          combination_results, exc, count, results>>

\* ------------------------------------------------------------ helpers
Range(s) == {s[i] : i \in DOMAIN s}

Min(a, b) == IF a <= b THEN a ELSE b

\* dict helpers: d is a sequence of <<value, count>>
Keys(d) == {d[i][1] : i \in DOMAIN d}

DictLen(d) == Len(d)

\* All dicts over Values with counts in Counts, in every insertion order.
RECURSIVE DictsOfLen(_)
DictsOfLen(n) ==
  IF n = 0 THEN {<<>>}
  ELSE {Append(d, <<v, c>>) : d \in DictsOfLen(n - 1), v \in Values, c \in Counts}

Dicts ==
  {d \in UNION {DictsOfLen(n) : n \in 0 .. Cardinality(Values)} :
     \A i, j \in DOMAIN d : i # j => d[i][1] # d[j][1]}

\* Slot sequences; pool objects are numbered in order of first use.
SlotSeqs ==
  {s \in UNION {[1 .. n -> PoolIds] : n \in 0 .. MaxSlots} :
     \A i \in DOMAIN s :
        s[i] = 1 \/ \E j \in 1 .. (i - 1) : s[j] = s[i] - 1}

\* ------------------------------------------------- ParameterValueSet
\* __hash__ is id(self): a pool is looked up by its identity.  (Were it
\* looked up by content, equal pools would collapse: PoolKeyByContent.)
PoolKeyByContent(value_set, h) ==
  CHOOSE q \in DOMAIN h :
     h[q] = h[value_set] /\ \A r \in DOMAIN h : h[r] = h[value_set] => q <= r

PoolKey(value_set, h) == value_set

CopyBase == Cardinality(PoolIds)

\* deepcopy() returns a new dict object: its address.  (deepcopy_alias
\* hands out the pool's own dict instead.)
deepcopy_alias(value_set) == value_set

deepcopy(value_set) == CopyBase + value_set

\* ----------------------------------------------------------- scoring
\* Finder.score is a field holding any callable the caller passes; Finder
\* only calls it, as self.score(*parameters), and orders by what it
\* returns.  The callable is therefore an input, not code of Finder.  Two
\* sample callables of any arity stand for it:
\*   f = 1   lambda *p: sum(p)                    (score(a, b) = a + b)
\*   f = 2   lambda *p: -p[0] + 2*p[1] - p[2] + 2*p[3] ...
\* A callable that raises (also on a wrong number of arguments) is the
\* action ScoreRaises.
RECURSIVE WeightedSum(_, _, _)
WeightedSum(f, t, i) ==
  IF i > Len(t) THEN 0
  ELSE (IF f = 1 THEN t[i]
        ELSE IF i % 2 = 1 THEN -t[i] ELSE 2 * t[i])
       + WeightedSum(f, t, i + 1)

score(f, parameters) == WeightedSum(f, parameters, 1)

CombinationResult(parameter_values, s) ==
  [parameter_values |-> parameter_values, score |-> s]

\* CombinationResult.__lt__ / __gt__: the score only
lt(a, b) == a.score < b.score

gt(a, b) == a.score > b.score

\* ------------------------------------------- estimate_iteration_count
RECURSIVE reduce_mul(_, _, _)
reduce_mul(pts, h, i) ==
  IF i > Len(pts) THEN 1
  ELSE DictLen(h[pts[i]]) * reduce_mul(pts, h, i + 1)

\* variants: only the positive-count keys counted; a shared pool counted once
RECURSIVE positive_mul(_, _, _)
positive_mul(pts, h, i) ==
  IF i > Len(pts) THEN 1
  ELSE Cardinality({k \in DOMAIN h[pts[i]] : h[pts[i]][k][2] > 0})
       * positive_mul(pts, h, i + 1)

estimate_positive_keys(pts, h) ==
  IF Len(pts) = 0 THEN 0 ELSE positive_mul(pts, h, 1)

RECURSIVE distinct_mul(_, _, _)
distinct_mul(pts, h, i) ==
  IF i > Len(pts) THEN 1
  ELSE (IF \E j \in 1 .. (i - 1) : pts[j] = pts[i] THEN 1
        ELSE DictLen(h[pts[i]]))
       * distinct_mul(pts, h, i + 1)

estimate_distinct_pools(pts, h) ==
  IF Len(pts) = 0 THEN 0 ELSE distinct_mul(pts, h, 1)

estimate_iteration_count(pts, h) ==
  IF Len(pts) = 0 THEN 0 ELSE reduce_mul(pts, h, 1)

\* ---------------------------------------------------------- copy_sets
set_of_sets(pts, h) == {PoolKey(pts[i], h) : i \in DOMAIN pts}

sets_to_copies(pts, h) ==
  [value_set \in set_of_sets(pts, h) |-> deepcopy(value_set)]

copy_sets_refs(pts, h) ==
  [i \in DOMAIN pts |-> sets_to_copies(pts, h)[PoolKey(pts[i], h)]]

copy_sets_heap(pts, h) ==
  LET m == sets_to_copies(pts, h)
      new == {m[k] : k \in DOMAIN m} \ DOMAIN h
  IN  [a \in DOMAIN h \cup new |->
         IF a \in DOMAIN h THEN h[a]
         ELSE h[CHOOSE k \in DOMAIN m : m[k] = a]]

\* -------------------------------------------------------------- Init
Init ==
  /\ parameters_to_set \in SlotSeqs
  /\ heap \in [Range(parameters_to_set) -> Dicts]
  /\ score_fn \in ScoreFns
  /\ estimate = -1
  /\ pc = "init"
  /\ copied_parameters_to_set = <<>>
  /\ stack = <<>>
  /\ previous_parameter_values = <<>>
  /\ combination_results = <<>>
  /\ exc = "none"
  /\ count = 0
  /\ results = <<>>

\* The caller (demo.main) asks for the estimate first.
EstimateIterationCount ==
  /\ pc = "init"
  /\ estimate' = estimate_iteration_count(parameters_to_set, heap)
  /\ pc' = "estimated"
  /\ UNCHANGED <<parameters_to_set, heap, score_fn, copied_parameters_to_set,
                 stack, previous_parameter_values, combination_results, exc,
                 count, results>>

\* ------------------------------------------------------------ get_best
\* dict item access by key, as available_values[value] -= 1 / += 1 do
IndexOfKey(d, value) == CHOOSE i \in DOMAIN d : d[i][1] = value

DictAdd(h, a, value, delta) ==
  [h EXCEPT ![a] =
     [@ EXCEPT ![IndexOfKey(@, value)] = <<value, @[2] + delta>>]]

\* line 98: an item the loop skips
unavailable_strict(instance_count) == instance_count < 0

unavailable(instance_count) == instance_count <= 0

\* line 100: available_values[value] -= 1
acquire(h, a, value) == DictAdd(h, a, value, -1)

\* line 109: available_values[value] += 1, in the finally clause
release_skipped(h, a, value) == h

release_not_on_error(h, a, value) ==
  IF exc = "none" THEN DictAdd(h, a, value, 1) ELSE h

release(h, a, value) == DictAdd(h, a, value, 1)

Frame(parameter_index, pos, phase) ==
  [parameter_index |-> parameter_index, pos |-> pos, phase |-> phase]

Top == stack[Len(stack)]

Pop == SubSeq(stack, 1, Len(stack) - 1)

ReplaceTop(f) == [stack EXCEPT ![Len(stack)] = f]

\* the dict add_combinations iterates in the top activation (line 96)
available_values(f) == copied_parameters_to_set[f.parameter_index + 1]

\* the loop variable `value` of an activation whose iterator stands at pos
LoopValue(f) == heap[available_values(f)][f.pos][1]

\* get_best up to the first call add_combinations(..., 0): copy_sets, the
\* empty result list and the list of None.  With no slot, line 96 indexes
\* an empty list and raises IndexError.
GetBestCall ==
  /\ pc = "estimated"
  /\ copied_parameters_to_set' = copy_sets_refs(parameters_to_set, heap)
  /\ heap' = copy_sets_heap(parameters_to_set, heap)
  /\ combination_results' = <<>>
  /\ previous_parameter_values' = [i \in DOMAIN parameters_to_set |-> None]
  /\ IF Len(parameters_to_set) = 0
     THEN /\ pc' = "raised"
          /\ exc' = "IndexError"
          /\ stack' = <<>>
     ELSE /\ pc' = "traversal"
          /\ exc' = "none"
          /\ stack' = <<Frame(0, 1, "for")>>
  /\ UNCHANGED <<parameters_to_set, score_fn, estimate, count, results>>

\* line 97-99: the iterator yields an item whose count is <= 0: continue
Skip ==
  /\ pc = "traversal"
  /\ Len(stack) > 0
  /\ Top.phase = "for"
  /\ Top.pos <= DictLen(heap[available_values(Top)])
  /\ unavailable(heap[available_values(Top)][Top.pos][2])
  /\ stack' = ReplaceTop(Frame(Top.parameter_index, Top.pos + 1, "for"))
  /\ UNCHANGED <<parameters_to_set, heap, score_fn, estimate, pc,
                 copied_parameters_to_set, previous_parameter_values,
                 combination_results, exc, count, results>>

\* line 100-104: decrement, record the value, and recurse when this is not
\* the last slot (at the last slot the scoring call is pending)
Take ==
  /\ pc = "traversal"
  /\ Len(stack) > 0
  /\ Top.phase = "for"
  /\ Top.pos <= DictLen(heap[available_values(Top)])
  /\ ~unavailable(heap[available_values(Top)][Top.pos][2])
  /\ heap' = acquire(heap, available_values(Top), LoopValue(Top))
  /\ previous_parameter_values' =
       [previous_parameter_values EXCEPT ![Top.parameter_index + 1] =
          LoopValue(Top)]
  /\ stack' =
       IF Top.parameter_index + 1 < Len(previous_parameter_values)
       THEN Append(ReplaceTop(Frame(Top.parameter_index, Top.pos, "try")),
                   Frame(Top.parameter_index + 1, 1, "for"))
       ELSE ReplaceTop(Frame(Top.parameter_index, Top.pos, "try"))
  /\ UNCHANGED <<parameters_to_set, score_fn, estimate, pc,
                 copied_parameters_to_set, combination_results, exc, count,
                 results>>

AtLeaf ==
  /\ pc = "traversal"
  /\ Len(stack) > 0
  /\ Top.phase = "try"
  /\ ~(Top.parameter_index + 1 < Len(previous_parameter_values))

\* line 106-107: the scoring function returns
Score ==
  /\ AtLeaf
  /\ combination_results' =
       Append(combination_results,
              CombinationResult(previous_parameter_values,
                                score(score_fn, previous_parameter_values)))
  /\ stack' = ReplaceTop(Frame(Top.parameter_index, Top.pos, "finally"))
  /\ UNCHANGED <<parameters_to_set, heap, score_fn, estimate, pc,
                 copied_parameters_to_set, previous_parameter_values, exc,
                 count, results>>

\* line 107: the scoring function raises
ScoreRaises ==
  /\ AtLeaf
  /\ exc' = "ScoreError"
  /\ stack' = ReplaceTop(Frame(Top.parameter_index, Top.pos, "finally"))
  /\ UNCHANGED <<parameters_to_set, heap, score_fn, estimate, pc,
                 copied_parameters_to_set, previous_parameter_values,
                 combination_results, count, results>>

\* line 108-109: the finally clause restores the count; the loop goes on,
\* or the exception in flight leaves this activation
Finally ==
  /\ pc = "traversal"
  /\ Len(stack) > 0
  /\ Top.phase = "finally"
  /\ heap' = release(heap, available_values(Top), LoopValue(Top))
  /\ IF exc = "none"
     THEN /\ stack' = ReplaceTop(Frame(Top.parameter_index, Top.pos + 1, "for"))
          /\ pc' = pc
     ELSE IF Len(stack) = 1
     THEN /\ stack' = <<>>
          /\ pc' = "raised"
     ELSE /\ stack' =
               [Pop EXCEPT ![Len(stack) - 1] =
                  Frame(@.parameter_index, @.pos, "finally")]
          /\ pc' = pc
  /\ UNCHANGED <<parameters_to_set, score_fn, estimate,
                 copied_parameters_to_set, previous_parameter_values,
                 combination_results, exc, count, results>>

\* the for loop of an activation is exhausted: add_combinations returns,
\* into the caller's try block (line 104) or into get_best (line 113)
Return ==
  /\ pc = "traversal"
  /\ Len(stack) > 0
  /\ Top.phase = "for"
  /\ Top.pos > DictLen(heap[available_values(Top)])
  /\ IF Len(stack) = 1
     THEN /\ stack' = <<>>
          /\ pc' = "select"
     ELSE /\ stack' =
               [Pop EXCEPT ![Len(stack) - 1] =
                  Frame(@.parameter_index, @.pos, "finally")]
          /\ pc' = pc
  /\ UNCHANGED <<parameters_to_set, heap, score_fn, estimate,
                 copied_parameters_to_set, previous_parameter_values,
                 combination_results, exc, count, results>>

\* ------------------------------------------------------ heapq.nlargest
\* (the library routine line 117 calls, on CombinationResult's ordering)
\* comparison of the (elem, order) tuples nlargest keeps in its heap
TupleLt(x, y) == IF x[1] # y[1] THEN lt(x[1], y[1]) ELSE x[2] < y[2]

RECURSIVE SiftDownLoop(_, _, _, _)
SiftDownLoop(h, startpos, pos, newitem) ==
  IF pos > startpos /\ TupleLt(newitem, h[((pos - 1) \div 2) + 1])
  THEN SiftDownLoop([h EXCEPT ![pos + 1] = h[((pos - 1) \div 2) + 1]],
                    startpos, (pos - 1) \div 2, newitem)
  ELSE [h EXCEPT ![pos + 1] = newitem]

RECURSIVE SiftUpLoop(_, _, _, _)
SiftUpLoop(h, startpos, pos, newitem) ==
  LET childpos == 2 * pos + 1
      rightpos == childpos + 1
      c == IF rightpos < Len(h) /\ ~TupleLt(h[childpos + 1], h[rightpos + 1])
           THEN rightpos ELSE childpos
  IN  IF childpos < Len(h)
      THEN SiftUpLoop([h EXCEPT ![pos + 1] = h[c + 1]], startpos, c, newitem)
      ELSE SiftDownLoop(h, startpos, pos, newitem)

siftup(h, pos) == SiftUpLoop(h, pos, pos, h[pos + 1])

RECURSIVE HeapifyFrom(_, _)
HeapifyFrom(h, i) == IF i < 0 THEN h ELSE HeapifyFrom(siftup(h, i), i - 1)

heapify(h) == HeapifyFrom(h, (Len(h) \div 2) - 1)

heapreplace(h, item) == siftup([h EXCEPT ![1] = item], 0)

\* sorted(iterable, reverse=True): a stable sort, descending (equal
\* elements keep their order), by CombinationResult.__lt__
RECURSIVE InsertDesc(_, _)
InsertDesc(sorted, x) ==
  IF sorted = <<>> THEN <<x>>
  ELSE IF lt(Head(sorted), x) THEN <<x>> \o sorted
  ELSE <<Head(sorted)>> \o InsertDesc(Tail(sorted), x)

RECURSIVE SortDescFrom(_, _, _)
SortDescFrom(s, i, acc) ==
  IF i > Len(s) THEN acc
  ELSE SortDescFrom(s, i + 1, InsertDesc(acc, s[i]))

sorted_reverse(s) == SortDescFrom(s, 1, <<>>)

\* result.sort(reverse=True) on the heap's (elem, order) tuples
RECURSIVE InsertDescTuple(_, _)
InsertDescTuple(sorted, x) ==
  IF sorted = <<>> THEN <<x>>
  ELSE IF TupleLt(Head(sorted), x) THEN <<x>> \o sorted
  ELSE <<Head(sorted)>> \o InsertDescTuple(Tail(sorted), x)

RECURSIVE SortDescTupleFrom(_, _, _)
SortDescTupleFrom(s, i, acc) ==
  IF i > Len(s) THEN acc
  ELSE SortDescTupleFrom(s, i + 1, InsertDescTuple(acc, s[i]))

sort_reverse(s) == SortDescTupleFrom(s, 1, <<>>)

\* max(): the first element no later one is greater than
RECURSIVE MaxFrom(_, _, _)
MaxFrom(s, i, maxitem) ==
  IF i > Len(s) THEN maxitem
  ELSE MaxFrom(s, i + 1, IF gt(s[i], maxitem) THEN s[i] ELSE maxitem)

RECURSIVE HeapScan(_, _, _, _)
HeapScan(h, s, i, order) ==
  IF i > Len(s) THEN h
  ELSE IF lt(h[1][1], s[i])
       THEN HeapScan(heapreplace(h, <<s[i], order>>), s, i + 1, order - 1)
       ELSE HeapScan(h, s, i + 1, order)

\* (nlargest_unsorted: the first n in enumeration order)
nlargest_unsorted(n, iterable) == SubSeq(iterable, 1, Min(n, Len(iterable)))

nlargest(n, iterable) ==
  IF n = 1
  THEN IF iterable = <<>> THEN <<>>
       ELSE <<MaxFrom(iterable, 2, iterable[1])>>
  ELSE IF n >= Len(iterable)
  THEN SubSeq(sorted_reverse(iterable), 1, Min(n, Len(iterable)))
  ELSE IF n <= 0 THEN <<>>
  ELSE LET first == [i \in 1 .. n |-> <<iterable[i], -(i - 1)>>]
           h == HeapScan(heapify(first), iterable, n + 1, -n)
           out == sort_reverse(h)
       IN  [i \in 1 .. Len(out) |-> out[i][1]]

\* line 115 (result_count_min: without the test for a negative count)
result_count_min(cnt, combination_count) == Min(cnt, combination_count)

result_count(cnt, combination_count) ==
  IF 0 <= cnt THEN Min(cnt, combination_count) ELSE combination_count

\* line 114-120.  `count` is first read on line 115, so the argument of
\* the call is chosen here.
GetBestReturn ==
  /\ pc = "select"
  /\ \E k \in Ks :
       /\ count' = k
       /\ results' =
            nlargest(result_count(k, Len(combination_results)),
                     combination_results)
  /\ pc' = "done"
  /\ UNCHANGED <<parameters_to_set, heap, score_fn, estimate,
                 copied_parameters_to_set, stack, previous_parameter_values,
                 combination_results, exc>>

Next ==
  \/ EstimateIterationCount
  \/ GetBestCall
  \/ Skip
  \/ Take
  \/ Score
  \/ ScoreRaises
  \/ Finally
  \/ Return
  \/ GetBestReturn

Spec == Init /\ [][Next]_vars

\* ===================================================== properties
\* the caller's pool objects and their counts
Pools == Range(parameters_to_set)

NumSlots == Len(parameters_to_set)

CountOf(d, v) ==
  IF v \in Keys(d) THEN d[IndexOfKey(d, v)][2] ELSE 0

\* number of slots bound to pool p that tuple t assigns v
Uses(t, p, v) ==
  Cardinality({i \in DOMAIN t : parameters_to_set[i] = p /\ t[i] = v})

Tuples == [1 .. NumSlots -> Values]

Max(a, b) == IF a >= b THEN a ELSE b

\* tuples obtainable by sequential depletion of the pools
ValidCombinations ==
  {t \in Tuples :
     \A p \in Pools, v \in Values :
        Uses(t, p, v) <= Max(0, CountOf(heap[p], v))}

\* the validity test worded with the bare original count
BareCountCombinations ==
  {t \in Tuples :
     \A p \in Pools, v \in Values : Uses(t, p, v) <= CountOf(heap[p], v)}

ResultTuples == {results[i].parameter_values : i \in DOMAIN results}

ReturnedAll == pc = "done" /\ count = -1 /\ NumSlots >= 1

\* C1 (as stated): get_best(-1) returns, each once, exactly the tuples in
\* which every value v is used by at most count(v) slots of each pool,
\* for every value v of the pool.
C1_BareCount ==
  ReturnedAll =>
    /\ ResultTuples = BareCountCombinations
    /\ Len(results) = Cardinality(ResultTuples)

\* C1 (amended): get_best(-1) returns, each once, exactly the tuples in
\* which every value v is used by at most max(0, count(v)) slots of each
\* pool; a value whose count is <= 0 is never assigned and does not make
\* the other values' tuples invalid.
C1_ExactlyValid ==
  ReturnedAll =>
    /\ ResultTuples = ValidCombinations
    /\ Len(results) = Cardinality(ResultTuples)

\* two slots on one pool {A:1, B:1}: exactly (A,B) and (B,A)
C1_Witness ==
  /\ ReturnedAll
  /\ parameters_to_set = <<1, 1>>
  /\ heap[1] = <<<<1, 1>>, <<2, 1>>>>
  /\ ResultTuples = {<<1, 2>>, <<2, 1>>}
  /\ Len(results) = 2
\* ------------------------------------------------------------------ C2
CallEnded == pc \in {"done", "raised"}

\* C2: no step of get_best writes the `available` dict of a pool a slot
\* refers to, so it has the same keys and counts when the call ends (with
\* a result or with an error) as when it started.
C2_CallerPoolsUntouched ==
  [][\A p \in Pools : heap'[p] = heap[p]]_vars

\* a call that decremented and restored counts and ended with the scoring
\* function's error
C2_Witness ==
  /\ pc = "raised"
  /\ exc = "ScoreError"
  /\ Len(combination_results) >= 1

\* ------------------------------------------------------------------ C3
\* C3: for every slot sequence (the empty one included, which has the one
\* valid combination <<>>) and every K, get_best(K) returns a result of
\* min(K, V) entries for K >= 0 and of V entries for every negative K, V
\* being the number of valid combinations: a call that ends without the
\* scoring function having raised ends with such a result.
C3_EveryCallReturnsCount ==
  (CallEnded /\ exc # "ScoreError") =>
    /\ pc = "done"
    /\ Len(results) =
         IF count >= 0 THEN Min(count, Cardinality(ValidCombinations))
         ELSE Cardinality(ValidCombinations)

\* C3, for the calls that return (one slot or more): the result has
\* min(K, V) entries for K >= 0 and V entries for every negative K.
C3_ResultCount ==
  pc = "done" =>
    Len(results) =
      IF count >= 0 THEN Min(count, Cardinality(ValidCombinations))
      ELSE Cardinality(ValidCombinations)

\* K = -2 returns all of several combinations
C3_Witness ==
  /\ pc = "done"
  /\ count = -2
  /\ Len(results) >= 3

\* ------------------------------------------------------------------ C4
\* C4: the results are distinct valid combinations with their scores, in
\* descending score order, and no valid combination left out scores
\* strictly more than a returned one.
C4_TopScoresDescending ==
  pc = "done" =>
    /\ \A i \in DOMAIN results :
         /\ results[i].parameter_values \in ValidCombinations
         /\ results[i].score = score(score_fn, results[i].parameter_values)
    /\ Cardinality(ResultTuples) = Len(results)
    /\ \A i \in 1 .. (Len(results) - 1) :
         results[i].score >= results[i + 1].score
    /\ \A t \in ValidCombinations \ ResultTuples :
         \A i \in DOMAIN results : score(score_fn, t) <= results[i].score

\* a truncated selection that is not a prefix of the enumeration
C4_Witness ==
  /\ pc = "done"
  /\ count = 2
  /\ Len(combination_results) = 4
  /\ results[1].score > results[2].score
  /\ results # SubSeq(combination_results, 1, 2)

\* ------------------------------------------------------------------ C5
\* C5: with no slot get_best does not fail: one combination, the empty
\* tuple, is scored; get_best(-1) returns it and get_best(0) nothing.
C5_EmptySlotsOneCombination ==
  (NumSlots = 0 /\ CallEnded) =>
    /\ pc = "done"
    /\ combination_results =
         <<CombinationResult(<<>>, score(score_fn, <<>>))>>
    /\ (count = -1 => Len(results) = 1)
    /\ (count = 0 => results = <<>>)

\* ------------------------------------------------------------------ C6
PositiveKeys(d) == {d[i][1] : i \in {j \in DOMAIN d : d[j][2] > 0}}

AllPoolsDistinct ==
  \A i, j \in DOMAIN parameters_to_set :
     i # j => parameters_to_set[i] # parameters_to_set[j]

\* C6: two slots use the same working copy iff they are bound to the same
\* pool object; slots on distinct pool objects do not deplete each other,
\* whatever the pools hold: every choice of one positive-count value per
\* slot is enumerated, once.
C6_SharingByIdentity ==
  /\ pc \notin {"init", "estimated"} =>
       \A i, j \in DOMAIN parameters_to_set :
          (copied_parameters_to_set[i] = copied_parameters_to_set[j])
            <=> (parameters_to_set[i] = parameters_to_set[j])
  /\ (pc = "done" /\ count < 0 /\ AllPoolsDistinct) =>
       /\ ResultTuples =
            {t \in Tuples :
               \A i \in DOMAIN t : t[i] \in PositiveKeys(heap[parameters_to_set[i]])}
       /\ Len(results) = Cardinality(ResultTuples)

\* two distinct pools, each {A:1}: (A,A) is enumerated
C6_Witness ==
  /\ pc = "done"
  /\ count = -1
  /\ parameters_to_set = <<1, 2>>
  /\ heap[1] = <<<<1, 1>>>>
  /\ heap[2] = <<<<1, 1>>>>
  /\ copied_parameters_to_set[1] # copied_parameters_to_set[2]
  /\ ResultTuples = {<<1, 1>>}

\* ------------------------------------------------------------------ C7
KeyTuples ==
  {t \in Tuples : \A i \in DOMAIN t : t[i] \in Keys(heap[parameters_to_set[i]])}

\* C7: the estimate is 0 with no slot and otherwise the number of ways to
\* pick one key per slot, whatever the counts and the sharing.
C7_EstimateIsProduct ==
  pc # "init" =>
    estimate = IF NumSlots = 0 THEN 0 ELSE Cardinality(KeyTuples)

\* two slots on one shared pool holding a zero count
C7_Witness ==
  /\ pc = "estimated"
  /\ parameters_to_set = <<1, 1>>
  /\ heap[1] = <<<<1, 0>>, <<2, 1>>>>
  /\ estimate = 4

\* ------------------------------------------------------------------ C8
\* C8: the estimate is never below the number of combinations get_best
\* enumerates, nor below the number of results of get_best(K < 0).
C8_EstimateUpperBound ==
  pc # "init" =>
    /\ estimate >= Len(combination_results)
    /\ estimate >= Len(results)

\* shared pool: the estimate over-counts the two combinations returned
C8_Witness ==
  /\ pc = "done"
  /\ count = -1
  /\ parameters_to_set = <<1, 1>>
  /\ Len(results) = 2
  /\ estimate = 4

\* ------------------------------------------------------------------ C9
\* the caller's dict a working copy was made from
OriginalOf(a) ==
  heap[parameters_to_set[
         CHOOSE i \in DOMAIN parameters_to_set :
            copied_parameters_to_set[i] = a]]

\* activations between their decrement and their restore that hold v
\* from the working dict a
CheckedOut(a, v) ==
  Cardinality({k \in DOMAIN stack :
                 /\ stack[k].phase \in {"try", "finally"}
                 /\ available_values(stack[k]) = a
                 /\ previous_parameter_values[stack[k].parameter_index + 1] = v})

\* C9: during the traversal every working count of a value with a
\* non-negative original count is the original minus the number checked
\* out, and is not negative; a count that is <= 0 is never decremented;
\* when the traversal returns every working count is the original one.
C9_Depletion ==
  pc \in {"traversal", "select"} =>
    \A a \in Range(copied_parameters_to_set) :
       /\ Len(heap[a]) = Len(OriginalOf(a))
       /\ \A k \in DOMAIN heap[a] :
            LET v == heap[a][k][1]
                working == heap[a][k][2]
                original == OriginalOf(a)[k][2]
            IN  /\ OriginalOf(a)[k][1] = v
                /\ original >= 0 =>
                     /\ working = original - CheckedOut(a, v)
                     /\ working >= 0
                /\ original <= 0 => working = original
                /\ pc = "select" => working = original

\* both slots of a shared pool hold the same value, of count 2
C9_Witness ==
  /\ pc = "traversal"
  /\ Len(stack) = 2
  /\ copied_parameters_to_set[1] = copied_parameters_to_set[2]
  /\ \E v \in Values :
       /\ CheckedOut(copied_parameters_to_set[1], v) = 2
       /\ CountOf(heap[copied_parameters_to_set[1]], v) = 0

\* ----------------------------------------------------------------- C10
\* C10: once the scoring function has raised, the same error stays in
\* flight, nothing more is scored, no result is returned, and when the
\* error leaves get_best every working count is the original one.
C10_ScoreFailure ==
  [][exc = "ScoreError" =>
       /\ exc' = "ScoreError"
       /\ combination_results' = combination_results
       /\ results' = <<>>
       /\ pc' \in {"traversal", "raised"}
       /\ pc' = "raised" =>
            \A i \in DOMAIN parameters_to_set :
               heap'[copied_parameters_to_set[i]] = heap'[parameters_to_set[i]]
    ]_vars

\* the error left a two-slot search after a combination had been scored
C10_Witness ==
  /\ pc = "raised"
  /\ exc = "ScoreError"
  /\ NumSlots = 2
  /\ Len(combination_results) >= 1
  /\ previous_parameter_values \notin
       {combination_results[i].parameter_values : i \in DOMAIN combination_results}
=============================================================================
